---- MODULE Spec2Model ----
(***************************************************************************)
(* Graph-Coverage: parse_graph, the steppable prime-path and edge-pair     *)
(* engines of graph_coverage.py and their run-to-completion drivers.       *)
(*                                                                         *)
(* A string is a sequence of character codes, a node identifier is a       *)
(* string, a path is a sequence of node identifiers, and a graph (a Python *)
(* dict, which keeps insertion order) is a sequence of records             *)
(* [node, nbrs] with pairwise distinct node fields.                        *)
(***************************************************************************)
EXTENDS Integers, Sequences, FiniteSets, TLC

VARIABLES
    pc,         \* where the caller is: parsing, a compute_* loop, the step driver, ended
    lines,      \* parse_graph: input_text.strip().split('\n')
    num,        \* parse_graph: number of lines already processed
    graph,      \* parse_graph: the dict being built; afterwards state['graph']
    state,      \* the computation state dict: paths, iteration, progress, remaining_nodes
    max_iters,  \* the max_iters argument of the running compute_* call
    call,       \* the last step / cleanup call: its function, its cap, whether it raised
    result      \* what compute_* returned, if it returned

vars == <<pc, lines, num, graph, state, max_iters, call, result>>

----------------------------------------------------------------------------
(* Characters and strings *)

NL == 10
SP == 32
HASH == 35

\* str.strip() with no argument strips ASCII whitespace
Whitespace == {9, 10, 11, 12, 13, 32}

RECURSIVE LStrip(_)
LStrip(s) ==
    IF s # <<>> /\ Head(s) \in Whitespace THEN LStrip(Tail(s)) ELSE s

RECURSIVE RStrip(_)
RStrip(s) ==
    IF s # <<>> /\ s[Len(s)] \in Whitespace
    THEN RStrip(SubSeq(s, 1, Len(s) - 1))
    ELSE s

Strip(s) == RStrip(LStrip(s))

\* str.split(sep) for a one-character sep: always at least one piece
RECURSIVE SplitFrom(_, _, _)
SplitFrom(s, sep, piece) ==
    IF s = <<>> THEN <<piece>>
    ELSE IF Head(s) = sep THEN <<piece>> \o SplitFrom(Tail(s), sep, <<>>)
    ELSE SplitFrom(Tail(s), sep, Append(piece, Head(s)))

Split(s, sep) == SplitFrom(s, sep, <<>>)

StartsWith(s, c) == s # <<>> /\ Head(s) = c

\* ' '.join(path)
RECURSIVE Join(_)
Join(path) ==
    IF path = <<>> THEN <<>>
    ELSE IF Len(path) = 1 THEN path[1]
    ELSE path[1] \o <<SP>> \o Join(Tail(path))

\* Python's `needle in hay` on strings
Contains(needle, hay) ==
    \E i \in 0..(Len(hay) - Len(needle)) :
        SubSeq(hay, i + 1, i + Len(needle)) = needle

\* Python's < on strings: lexicographic by code point, a proper prefix is smaller
RECURSIVE StrLess(_, _)
StrLess(s, t) ==
    IF t = <<>> THEN FALSE
    ELSE IF s = <<>> THEN TRUE
    ELSE IF Head(s) # Head(t) THEN Head(s) < Head(t)
    ELSE StrLess(Tail(s), Tail(t))

\* Python's < on lists of strings
RECURSIVE ListLess(_, _)
ListLess(p, q) ==
    IF q = <<>> THEN FALSE
    ELSE IF p = <<>> THEN TRUE
    ELSE IF Head(p) # Head(q) THEN StrLess(Head(p), Head(q))
    ELSE ListLess(Tail(p), Tail(q))

\* sorted(strs, key = len): a stable sort, here by insertion from the left
RECURSIVE InsertByLen(_, _)
InsertByLen(xs, x) ==
    IF xs = <<>> THEN <<x>>
    ELSE IF Len(x) < Len(xs[Len(xs)])
         THEN Append(InsertByLen(SubSeq(xs, 1, Len(xs) - 1), x), xs[Len(xs)])
         ELSE Append(xs, x)

RECURSIVE SortByLen(_)
SortByLen(xs) ==
    IF xs = <<>> THEN <<>>
    ELSE InsertByLen(SortByLen(SubSeq(xs, 1, Len(xs) - 1)), xs[Len(xs)])

\* the key (len(x), x) of the final sort of paths
KeyLess(p, q) == Len(p) < Len(q) \/ (Len(p) = Len(q) /\ ListLess(p, q))

\* as SortByKey, with the key len(x) alone
SortByKey_LenOnly(xs) == SortByLen(xs)

\* paths.sort(key = lambda x: (len(x), x)): a stable sort
RECURSIVE InsertByKey(_, _)
InsertByKey(xs, x) ==
    IF xs = <<>> THEN <<x>>
    ELSE IF KeyLess(x, xs[Len(xs)])
         THEN Append(InsertByKey(SubSeq(xs, 1, Len(xs) - 1), x), xs[Len(xs)])
         ELSE Append(xs, x)

RECURSIVE SortByKey(_)
SortByKey(xs) ==
    IF xs = <<>> THEN <<>>
    ELSE InsertByKey(SortByKey(SubSeq(xs, 1, Len(xs) - 1)), xs[Len(xs)])

Range(s) == {s[i] : i \in 1..Len(s)}

----------------------------------------------------------------------------
(* Graphs *)

Keys(g) == [i \in 1..Len(g) |-> g[i].node]

HasKey(g, n) == \E i \in 1..Len(g) : g[i].node = n

\* graph[n]
Nbrs(g, n) == g[CHOOSE i \in 1..Len(g) : g[i].node = n].nbrs

\* if n not in graph: graph[n] = []
AddKey(g, n) == IF HasKey(g, n) THEN g ELSE Append(g, [node |-> n, nbrs |-> <<>>])

\* graph[n].append(m)
AppendNbr(g, n, m) ==
    [i \in 1..Len(g) |->
        IF g[i].node = n THEN [g[i] EXCEPT !.nbrs = Append(@, m)] ELSE g[i]]

----------------------------------------------------------------------------
(* parse_graph *)

\* as AddNeighbors, without the key for a neighbor that has none
RECURSIVE AddNeighbors_NoKey(_, _, _)
AddNeighbors_NoKey(g, node, neighbors) ==
    IF neighbors = <<>> THEN g
    ELSE AddNeighbors_NoKey(AppendNbr(g, node, Head(neighbors)), node, Tail(neighbors))

\* for neighbor in neighbors: graph[node].append(neighbor); add the neighbor's key
RECURSIVE AddNeighbors(_, _, _)
AddNeighbors(g, node, neighbors) ==
    IF neighbors = <<>> THEN g
    ELSE AddNeighbors(AddKey(AppendNbr(g, node, Head(neighbors)), Head(neighbors)),
                      node, Tail(neighbors))

\* as ParseOneLine, with the blank and comment test on the line as it stands
ParseOneLine_TestsRawLine(g, rawline) ==
    IF rawline = <<>> \/ StartsWith(rawline, HASH) THEN g
    ELSE LET nodes == Split(Strip(rawline), SP) IN
         AddNeighbors(AddKey(g, nodes[1]), nodes[1], Tail(nodes))

\* the body of the loop over the lines, for one line of the stripped text
ParseOneLine(g, rawline) ==
    LET line == Strip(rawline) IN
    IF line = <<>> \/ StartsWith(line, HASH) THEN g
    ELSE LET nodes == Split(line, SP) IN
         AddNeighbors(AddKey(g, nodes[1]), nodes[1], Tail(nodes))

----------------------------------------------------------------------------
(* The computation state and the two engines *)

DefaultMaxIters == 100

NoProgress == [marker |-> "", iteration |-> 0, found |-> 0]
Computed == [marker |-> "computed", iteration |-> 0, found |-> 0]
Cleaned == [marker |-> "cleaned", iteration |-> 0, found |-> 0]

\* f'Iteration {iteration}: Found {len(paths)} prime paths.' / '... edge pairs.'
ProgressMessage(what, iteration, paths) ==
    [marker |-> what, iteration |-> iteration, found |-> Len(paths)]

Terminal(st) == st.progress.marker \in {"computed", "cleaned"}

\* init_computation_state; remaining_nodes, a key the edge-pair engine adds in its
\* first step, is held empty until then
InitComputationState ==
    [paths |-> <<>>, iteration |-> 0, progress |-> NoProgress, remaining_nodes |-> <<>>]

\* as NeighborLoop, which accepts a neighbor of the path only when it is path[0],
\* accepting any neighbor that is on the path
RECURSIVE NeighborLoop_NoCycleTest(_, _, _, _, _, _)
NeighborLoop_NoCycleTest(acc, idx, pcpy, pset, neighbors, has_one_neighbor) ==
    IF neighbors = <<>> THEN acc
    ELSE
      LET neighbor == Head(neighbors)
          rest == Tail(neighbors)
      IN
      IF acc.split_path /\ ~has_one_neighbor
      THEN NeighborLoop_NoCycleTest(
               [acc EXCEPT !.paths = Append(@, Append(pcpy, neighbor)),
                           !.made_changes = TRUE],
               idx, pcpy, pset, rest, has_one_neighbor)
      ELSE NeighborLoop_NoCycleTest(
               [acc EXCEPT !.paths[idx] = Append(@, neighbor),
                           !.split_path = TRUE,
                           !.made_changes = TRUE],
               idx, pcpy, pset, rest, has_one_neighbor)

\* as NeighborLoop, with a fork built from the path as already extended in place
RECURSIVE NeighborLoop_ForkFromExtended(_, _, _, _, _, _)
NeighborLoop_ForkFromExtended(acc, idx, pcpy, pset, neighbors, has_one_neighbor) ==
    IF neighbors = <<>> THEN acc
    ELSE
      LET neighbor == Head(neighbors)
          rest == Tail(neighbors)
      IN
      IF neighbor \in pset /\ neighbor # acc.paths[idx][1]
      THEN NeighborLoop_ForkFromExtended(acc, idx, pcpy, pset, rest, has_one_neighbor)
      ELSE IF acc.split_path /\ ~has_one_neighbor
      THEN NeighborLoop_ForkFromExtended(
               [acc EXCEPT !.paths = Append(@, Append(acc.paths[idx], neighbor)),
                           !.made_changes = TRUE],
               idx, pcpy, pset, rest, has_one_neighbor)
      ELSE NeighborLoop_ForkFromExtended(
               [acc EXCEPT !.paths[idx] = Append(@, neighbor),
                           !.split_path = TRUE,
                           !.made_changes = TRUE],
               idx, pcpy, pset, rest, has_one_neighbor)

\* for neighbor in neighbors: ... of one path; acc = [paths, split_path, made_changes]
RECURSIVE NeighborLoop(_, _, _, _, _, _)
NeighborLoop(acc, idx, pcpy, pset, neighbors, has_one_neighbor) ==
    IF neighbors = <<>> THEN acc
    ELSE
      LET neighbor == Head(neighbors)
          rest == Tail(neighbors)
      IN
      IF neighbor \in pset /\ neighbor # acc.paths[idx][1]
      THEN NeighborLoop(acc, idx, pcpy, pset, rest, has_one_neighbor)
      ELSE IF has_one_neighbor
      THEN NeighborLoop([acc EXCEPT !.paths[idx] = Append(@, neighbor),
                                    !.made_changes = TRUE],
                        idx, pcpy, pset, rest, has_one_neighbor)
      ELSE IF acc.split_path
      THEN NeighborLoop([acc EXCEPT !.paths = Append(@, Append(pcpy, neighbor)),
                                    !.made_changes = TRUE],
                        idx, pcpy, pset, rest, has_one_neighbor)
      ELSE NeighborLoop([acc EXCEPT !.paths[idx] = Append(@, neighbor),
                                    !.split_path = TRUE,
                                    !.made_changes = TRUE],
                        idx, pcpy, pset, rest, has_one_neighbor)

\* as PathLoop, without the skip of a path that holds a node twice
RECURSIVE PathLoop_NoDuplicateSkip(_, _, _, _)
PathLoop_NoDuplicateSkip(acc, idx, n, g) ==
    IF idx > n THEN acc
    ELSE
      LET path == acc.paths[idx]
          neighbors == Nbrs(g, path[Len(path)])
      IN PathLoop_NoDuplicateSkip(
             NeighborLoop([acc EXCEPT !.split_path = FALSE], idx, path, Range(path),
                          neighbors, Len(neighbors) = 1),
             idx + 1, n, g)

\* as PathLoop, with the length of the path list read anew at every pass
RECURSIVE PathLoop_LiveLength(_, _, _, _)
PathLoop_LiveLength(acc, idx, n, g) ==
    IF idx > Len(acc.paths) THEN acc
    ELSE
      LET path == acc.paths[idx]
          pset == Range(path)
      IN
      IF Cardinality(pset) # Len(path)
      THEN PathLoop_LiveLength(acc, idx + 1, n, g)
      ELSE
        LET neighbors == Nbrs(g, path[Len(path)]) IN
        PathLoop_LiveLength(NeighborLoop([acc EXCEPT !.split_path = FALSE], idx, path,
                                         pset, neighbors, Len(neighbors) = 1),
                            idx + 1, n, g)

\* for idx in range(len(paths)): ... with the length taken once, before the loop
RECURSIVE PathLoop(_, _, _, _)
PathLoop(acc, idx, n, g) ==
    IF idx > n THEN acc
    ELSE
      LET path == acc.paths[idx]
          pset == Range(path)
      IN
      IF Cardinality(pset) # Len(path)
      THEN PathLoop(acc, idx + 1, n, g)
      ELSE
        LET neighbors == Nbrs(g, path[Len(path)]) IN
        PathLoop(NeighborLoop([acc EXCEPT !.split_path = FALSE], idx, path, pset,
                              neighbors, Len(neighbors) = 1),
                 idx + 1, n, g)

\* paths = [[node] for node in graph]
SeedPaths(g) == [i \in 1..Len(g) |-> <<g[i].node>>]

\* as PrimeRound, with 'computed' set after a round that made changes
PrimeRound_MarkerInverted(st, g) ==
    LET paths == IF st.iteration = 0 THEN SeedPaths(g) ELSE st.paths
        iteration == st.iteration + 1
        r == PathLoop([paths |-> paths, split_path |-> FALSE, made_changes |-> FALSE],
                      1, Len(paths), g)
    IN [st EXCEPT
           !.paths = r.paths,
           !.iteration = iteration,
           !.progress = IF r.made_changes THEN Computed
                        ELSE ProgressMessage("prime paths", iteration, r.paths)]

\* one round on a state that is not terminal and whose counter may go on
PrimeRound(st, g) ==
    LET paths == IF st.iteration = 0 THEN SeedPaths(g) ELSE st.paths
        iteration == st.iteration + 1
        r == PathLoop([paths |-> paths, split_path |-> FALSE, made_changes |-> FALSE],
                      1, Len(paths), g)
    IN [st EXCEPT
           !.paths = r.paths,
           !.iteration = iteration,
           !.progress = IF ~r.made_changes THEN Computed
                        ELSE ProgressMessage("prime paths", iteration, r.paths)]

\* as StepPrimePaths, with the cap tested before the counter is increased
StepPrimePaths_CapBeforeIncrement(st, g, cap) ==
    IF Terminal(st) THEN [state |-> st, raised |-> FALSE]
    ELSE IF st.iteration = cap THEN [state |-> st, raised |-> TRUE]
    ELSE [state |-> PrimeRound(st, g), raised |-> FALSE]

\* as StepPrimePaths, returning early on 'computed' only
StepPrimePaths_ComputedOnly(st, g, cap) ==
    IF st.progress.marker = "computed" THEN [state |-> st, raised |-> FALSE]
    ELSE IF st.iteration + 1 = cap THEN [state |-> st, raised |-> TRUE]
    ELSE [state |-> PrimeRound(st, g), raised |-> FALSE]

\* as StepPrimePaths, with paths and iteration stored in the state before the cap test
StepPrimePaths_StoresBeforeRaise(st, g, cap) ==
    IF Terminal(st) THEN [state |-> st, raised |-> FALSE]
    ELSE IF st.iteration + 1 = cap
    THEN [state |-> [st EXCEPT !.paths = IF st.iteration = 0 THEN SeedPaths(g) ELSE @,
                               !.iteration = @ + 1],
          raised |-> TRUE]
    ELSE [state |-> PrimeRound(st, g), raised |-> FALSE]

\* _step_prime_paths(state, max_iters): the state afterwards and whether it raised
StepPrimePaths(st, g, cap) ==
    IF Terminal(st) THEN [state |-> st, raised |-> FALSE]
    ELSE IF st.iteration + 1 = cap THEN [state |-> st, raised |-> TRUE]
    ELSE [state |-> PrimeRound(st, g), raised |-> FALSE]

\* as MarkSubPaths, comparing paths[i] with the next entry only
MarkSubPaths_NextOnly(strs) ==
    [i \in 1..Len(strs) |->
        IF i < Len(strs) /\ Contains(strs[i], strs[i + 1]) THEN <<>> ELSE strs[i]]

\* the sub-path loop: paths[i] becomes '' when it is in some paths[j], j > i. Entry j
\* is still as sorted when paths[i] is compared with it, so the loop is this map.
MarkSubPaths(strs) ==
    [i \in 1..Len(strs) |->
        IF \E j \in (i + 1)..Len(strs) : Contains(strs[i], strs[j]) THEN <<>> ELSE strs[i]]

NonEmpty(s) == s # <<>>

\* [path.split(' ') for path in paths if path]
SplitKept(strs) ==
    LET kept == SelectSeq(strs, NonEmpty) IN [i \in 1..Len(kept) |-> Split(kept[i], SP)]

\* _cleanup_prime_paths(state)
CleanupPrimePaths(st) ==
    IF st.progress.marker = "cleaned" THEN st
    ELSE
      LET joined == SortByLen([i \in 1..Len(st.paths) |-> Join(st.paths[i])])
          paths == SortByKey(SplitKept(MarkSubPaths(joined)))
      IN [st EXCEPT !.paths = paths, !.progress = Cleaned]

\* as PairsVia, with one triple for a neighbor2 that graph[neighbor1] lists again
RECURSIVE PairsVia_Distinct(_, _, _)
PairsVia_Distinct(node, neighbor1, neighbors2) ==
    IF neighbors2 = <<>> THEN <<>>
    ELSE (IF Head(neighbors2) \in Range(Tail(neighbors2)) THEN <<>>
          ELSE <<(<<node, neighbor1, Head(neighbors2)>>)>>)
         \o PairsVia_Distinct(node, neighbor1, Tail(neighbors2))

\* for neighbor2 in graph[neighbor1]: paths.append([node, neighbor1, neighbor2])
RECURSIVE PairsVia(_, _, _)
PairsVia(node, neighbor1, neighbors2) ==
    IF neighbors2 = <<>> THEN <<>>
    ELSE <<(<<node, neighbor1, Head(neighbors2)>>)>> \o PairsVia(node, neighbor1, Tail(neighbors2))

\* for neighbor1 in graph[node]: ...
RECURSIVE PairsFrom(_, _, _)
PairsFrom(g, node, neighbors1) ==
    IF neighbors1 = <<>> THEN <<>>
    ELSE PairsVia(node, Head(neighbors1), Nbrs(g, Head(neighbors1)))
         \o PairsFrom(g, node, Tail(neighbors1))

\* as StepEdgePairs, taking the last node off the queue instead of the first
StepEdgePairs_PopsLast(st, g, cap) ==
    IF Terminal(st) THEN [state |-> st, raised |-> FALSE]
    ELSE
      LET remaining == IF st.iteration = 0 THEN Keys(g) ELSE st.remaining_nodes
          iteration == st.iteration + 1
      IN
      IF iteration = cap
      THEN [state |-> [st EXCEPT !.remaining_nodes = remaining], raised |-> TRUE]
      ELSE
        LET node == remaining[1]
            paths == st.paths \o PairsFrom(g, node, Nbrs(g, node))
            popped == SubSeq(remaining, 1, Len(remaining) - 1)
        IN [state |-> [st EXCEPT
                          !.paths = paths,
                          !.iteration = iteration,
                          !.remaining_nodes = popped,
                          !.progress = IF popped = <<>> THEN Computed
                                       ELSE ProgressMessage("edge pairs", iteration, paths)],
            raised |-> FALSE]

\* _step_edge_pairs(state, max_iters): state['remaining_nodes'] is assigned before
\* the cap is tested
StepEdgePairs(st, g, cap) ==
    IF Terminal(st) THEN [state |-> st, raised |-> FALSE]
    ELSE
      LET remaining == IF st.iteration = 0 THEN Keys(g) ELSE st.remaining_nodes
          iteration == st.iteration + 1
      IN
      IF iteration = cap
      THEN [state |-> [st EXCEPT !.remaining_nodes = remaining], raised |-> TRUE]
      ELSE
        LET node == remaining[1]
            paths == st.paths \o PairsFrom(g, node, Nbrs(g, node))
            popped == Tail(remaining)
        IN [state |-> [st EXCEPT
                          !.paths = paths,
                          !.iteration = iteration,
                          !.remaining_nodes = popped,
                          !.progress = IF popped = <<>> THEN Computed
                                       ELSE ProgressMessage("edge pairs", iteration, paths)],
            raised |-> FALSE]

----------------------------------------------------------------------------
(* prime_path_coverage.py: compute_prime_paths in one piece *)

QUOTE == 39
DQUOTE == 34
BACKSLASH == 92
COMMA == 44
LBRACKET == 91
RBRACKET == 93

PpcMaxIterations == 100000

\* the characters of a string as repr writes them between the quotes q: a backslash
\* and the quote q itself get a backslash in front (control characters, which repr
\* writes as escapes too, are not among the characters of the inputs)
RECURSIVE ReprBody(_, _)
ReprBody(str, q) ==
    IF str = <<>> THEN <<>>
    ELSE (IF Head(str) \in {BACKSLASH, q} THEN <<BACKSLASH, Head(str)>> ELSE <<Head(str)>>)
         \o ReprBody(Tail(str), q)

\* repr of a str: in single quotes, or in double quotes when it holds a single quote
\* and no double quote
Repr(str) ==
    LET q == IF QUOTE \in Range(str) /\ DQUOTE \notin Range(str) THEN DQUOTE ELSE QUOTE
    IN <<q>> \o ReprBody(str, q) \o <<q>>

RECURSIVE ReprItems(_)
ReprItems(path) ==
    IF path = <<>> THEN <<>>
    ELSE IF Len(path) = 1 THEN Repr(path[1])
    ELSE Repr(path[1]) \o <<COMMA, SP>> \o ReprItems(Tail(path))

\* str(paths[i]) of a list of str
StrOfList(path) == <<LBRACKET>> \o ReprItems(path) \o <<RBRACKET>>

\* for neighbor in neighbors: ... ; acc = [paths, split_path, made_changes]
RECURSIVE PpcNeighborLoop(_, _, _, _, _, _)
PpcNeighborLoop(acc, idx, pcpy, pset, neighbors, has_one_neighbor) ==
    IF neighbors = <<>> THEN acc
    ELSE
      LET neighbor == Head(neighbors)
          rest == Tail(neighbors)
      IN
      IF neighbor \in pset /\ neighbor # acc.paths[idx][1]
      THEN PpcNeighborLoop(acc, idx, pcpy, pset, rest, has_one_neighbor)
      ELSE IF has_one_neighbor
      THEN PpcNeighborLoop([acc EXCEPT !.paths[idx] = Append(@, neighbor),
                                       !.made_changes = TRUE],
                           idx, pcpy, pset, rest, has_one_neighbor)
      ELSE IF acc.split_path
      THEN PpcNeighborLoop([acc EXCEPT !.paths = Append(@, Append(pcpy, neighbor)),
                                       !.made_changes = TRUE],
                           idx, pcpy, pset, rest, has_one_neighbor)
      ELSE PpcNeighborLoop([acc EXCEPT !.paths[idx] = Append(@, neighbor),
                                       !.split_path = TRUE,
                                       !.made_changes = TRUE],
                           idx, pcpy, pset, rest, has_one_neighbor)

\* for idx in range(len(paths)): ...
RECURSIVE PpcPathLoop(_, _, _, _)
PpcPathLoop(acc, idx, n, g) ==
    IF idx > n THEN acc
    ELSE
      LET path == acc.paths[idx]
          pset == Range(path)
      IN
      IF Cardinality(pset) # Len(path)
      THEN PpcPathLoop(acc, idx + 1, n, g)
      ELSE
        LET neighbors == Nbrs(g, path[Len(path)]) IN
        PpcPathLoop(PpcNeighborLoop([acc EXCEPT !.split_path = FALSE], idx, path, pset,
                                    neighbors, Len(neighbors) = 1),
                    idx + 1, n, g)

\* while True: ... ; the paths at the break, or raised when the counter reaches the
\* limit
RECURSIVE PpcGrow(_, _, _)
PpcGrow(paths, counter, g) ==
    IF counter + 1 = PpcMaxIterations THEN [paths |-> paths, raised |-> TRUE]
    ELSE
      LET r == PpcPathLoop([paths |-> paths, split_path |-> FALSE, made_changes |-> FALSE],
                           1, Len(paths), g)
      IN IF ~r.made_changes THEN [paths |-> r.paths, raised |-> FALSE]
         ELSE PpcGrow(r.paths, counter + 1, g)

\* for i in range(num_paths): paths[i] is cleared when str(paths[i])[1:-1] is in
\* str(paths[j]) for some j # i, entries cleared before reading as '[]'
RECURSIVE PpcClearSubPaths(_, _)
PpcClearSubPaths(paths, i) ==
    IF i > Len(paths) THEN paths
    ELSE
      LET str == StrOfList(paths[i])
          path == SubSeq(str, 2, Len(str) - 1)
      IN
      IF \E j \in 1..Len(paths) : j # i /\ Contains(path, StrOfList(paths[j]))
      THEN PpcClearSubPaths([paths EXCEPT ![i] = <<>>], i + 1)
      ELSE PpcClearSubPaths(paths, i + 1)

\* prime_path_coverage.compute_prime_paths(graph)['paths'], or raised
PpcComputePrimePaths(g) ==
    LET grown == PpcGrow([i \in 1..Len(g) |-> <<g[i].node>>], 0, g) IN
    IF grown.raised THEN grown
    ELSE [paths |-> SortByKey(SelectSeq(PpcClearSubPaths(grown.paths, 1), NonEmpty)),
          raised |-> FALSE]

----------------------------------------------------------------------------
(* Inputs *)

MaxTokens == 4
MaxCap == 3

\* the tokens an input text is made of: '', '#', 'a', 'ba'
Tokens == {<<>>, <<HASH>>, <<97>>, <<98, 97>>}

\* texts of exactly n tokens, each two separated by one space or one line break
RECURSIVE TextsOf(_)
TextsOf(n) ==
    IF n = 1 THEN Tokens
    ELSE {t \o <<sep>> \o tok : t \in TextsOf(n - 1), sep \in {SP, NL}, tok \in Tokens}

\* two-line texts 'x y z\nu v' of non-empty tokens: a node with two neighbors, one
\* of which may have a neighbor of its own
BranchingTexts ==
    LET Names == Tokens \ {<<>>} IN
    {x \o <<SP>> \o y \o <<SP>> \o z \o <<NL>> \o u \o <<SP>> \o v :
        x \in Names, y \in Names, z \in Names, u \in Names, v \in Names}

Inputs == UNION {TextsOf(n) : n \in 1..MaxTokens} \cup BranchingTexts

\* -1 removes the limit
Caps == {-1, DefaultMaxIters} \cup (1..MaxCap)

NoCall == [fn |-> "", cap |-> 0, raised |-> FALSE]
NoResult == [returned |-> FALSE, paths |-> <<>>]

----------------------------------------------------------------------------
(* The state machine *)

Init ==
    /\ pc = "parse"
    /\ \E input_text \in Inputs : lines = Split(Strip(input_text), NL)
    /\ num = 0
    /\ graph = <<>>
    /\ state = InitComputationState
    /\ max_iters = 0
    /\ call = NoCall
    /\ result = NoResult

\* parse_graph: one pass of the loop over the lines
ParseLine ==
    /\ pc = "parse"
    /\ num < Len(lines)
    /\ num' = num + 1
    /\ graph' = ParseOneLine(graph, lines[num + 1])
    /\ UNCHANGED <<pc, lines, state, max_iters, call, result>>

\* parse_graph: after the loop, raise on an empty graph, else return it
ParseEnd ==
    /\ pc = "parse"
    /\ num = Len(lines)
    /\ pc' = IF graph = <<>> THEN "parse_error" ELSE "parsed"
    /\ lines' = <<>>
    /\ num' = 0
    /\ UNCHANGED <<graph, state, max_iters, call, result>>

\* compute_prime_paths(graph, max_iters) is called: state = init_computation_state(graph)
ComputePrimePaths ==
    /\ pc = "parsed"
    /\ \E cap \in Caps : max_iters' = cap
    /\ pc' = "prime_loop"
    /\ state' = InitComputationState
    /\ UNCHANGED <<lines, num, graph, call, result>>

\* compute_prime_paths: one pass of its while loop
PrimeLoopStep ==
    /\ pc = "prime_loop"
    /\ LET r == StepPrimePaths(state, graph, max_iters) IN
        /\ state' = r.state
        /\ call' = [fn |-> "_step_prime_paths", cap |-> max_iters, raised |-> r.raised]
        /\ pc' = IF r.raised THEN "raised"
                 ELSE IF r.state.progress.marker = "computed" THEN "prime_cleanup"
                 ELSE "prime_loop"
    /\ UNCHANGED <<lines, num, graph, max_iters, result>>

\* compute_prime_paths: after the loop, clean up and return state['paths']
PrimeCleanupReturn ==
    /\ pc = "prime_cleanup"
    /\ state' = CleanupPrimePaths(state)
    /\ call' = [fn |-> "_cleanup_prime_paths", cap |-> 0, raised |-> FALSE]
    /\ result' = [returned |-> TRUE, paths |-> state'.paths]
    /\ pc' = "returned"
    /\ UNCHANGED <<lines, num, graph, max_iters>>

\* compute_edge_pairs(graph, max_iters) is called
ComputeEdgePairs ==
    /\ pc = "parsed"
    /\ \E cap \in Caps : max_iters' = cap
    /\ pc' = "edge_loop"
    /\ state' = InitComputationState
    /\ UNCHANGED <<lines, num, graph, call, result>>

\* compute_edge_pairs: one pass of its while loop, returning state['paths'] on 'computed'
EdgeLoopStep ==
    /\ pc = "edge_loop"
    /\ LET r == StepEdgePairs(state, graph, max_iters) IN
        /\ state' = r.state
        /\ call' = [fn |-> "_step_edge_pairs", cap |-> max_iters, raised |-> r.raised]
        /\ pc' = IF r.raised THEN "raised"
                 ELSE IF r.state.progress.marker = "computed" THEN "returned"
                 ELSE "edge_loop"
        /\ result' = IF ~r.raised /\ r.state.progress.marker = "computed"
                     THEN [returned |-> TRUE, paths |-> r.state.paths]
                     ELSE result
    /\ UNCHANGED <<lines, num, graph, max_iters>>

\* a caller that steps by itself creates a state for one of the engines
DriverInit ==
    /\ pc = "parsed"
    /\ \E engine \in {"step_prime", "step_edge"} : pc' = engine
    /\ state' = InitComputationState
    /\ UNCHANGED <<lines, num, graph, max_iters, call, result>>

\* the caller calls _step_prime_paths(state, cap): on its engine's state, or on any
\* state that is terminal
DriverStepPrime ==
    /\ pc = "step_prime" \/ (pc = "step_edge" /\ Terminal(state))
    /\ \E cap \in Caps :
        LET r == StepPrimePaths(state, graph, cap) IN
        /\ state' = r.state
        /\ call' = [fn |-> "_step_prime_paths", cap |-> cap, raised |-> r.raised]
    /\ UNCHANGED <<pc, lines, num, graph, max_iters, result>>

\* the caller calls _step_edge_pairs(state, cap)
DriverStepEdge ==
    /\ pc = "step_edge" \/ (pc = "step_prime" /\ Terminal(state))
    /\ \E cap \in Caps :
        LET r == StepEdgePairs(state, graph, cap) IN
        /\ state' = r.state
        /\ call' = [fn |-> "_step_edge_pairs", cap |-> cap, raised |-> r.raised]
    /\ UNCHANGED <<pc, lines, num, graph, max_iters, result>>

\* the caller calls _cleanup_prime_paths(state) on the state after computing prime paths
DriverCleanup ==
    /\ pc = "step_prime"
    /\ Terminal(state)
    /\ state' = CleanupPrimePaths(state)
    /\ call' = [fn |-> "_cleanup_prime_paths", cap |-> 0, raised |-> FALSE]
    /\ UNCHANGED <<pc, lines, num, graph, max_iters, result>>

\* the caller passes the same graph to compute_prime_paths of prime_path_coverage.py
PrimePathCoverage ==
    /\ pc = "returned"
    /\ call.fn = "_cleanup_prime_paths"
    /\ LET r == PpcComputePrimePaths(graph) IN
        /\ call' = [fn |-> "prime_path_coverage.compute_prime_paths",
                    cap |-> PpcMaxIterations, raised |-> r.raised]
        /\ pc' = IF r.raised THEN "raised" ELSE "returned"
        /\ result' = IF r.raised THEN NoResult ELSE [returned |-> TRUE, paths |-> r.paths]
    /\ UNCHANGED <<lines, num, graph, state, max_iters>>

Next ==
    \/ ParseLine
    \/ ParseEnd
    \/ ComputePrimePaths
    \/ PrimeLoopStep
    \/ PrimeCleanupReturn
    \/ ComputeEdgePairs
    \/ EdgeLoopStep
    \/ DriverInit
    \/ DriverStepPrime
    \/ DriverStepEdge
    \/ DriverCleanup
    \/ PrimePathCoverage

Spec == Init /\ [][Next]_vars

----------------------------------------------------------------------------
(* What the claims speak of, stated without the engines *)

Nodes(g) == {g[i].node : i \in 1..Len(g)}

IsEdge(g, u, v) == \E i \in 1..Len(g) : g[i].node = u /\ v \in Range(g[i].nbrs)

\* p is a contiguous sub-sequence of q (as sequences of nodes)
SubPath(p, q) ==
    \E i \in 0..(Len(q) - Len(p)) : \A k \in 1..Len(p) : q[i + k] = p[k]

\* a walk with no repeated node, except that its last node may equal its first
IsSimpleWalk(g, p) ==
    /\ Len(p) >= 1
    /\ \A k \in 1..(Len(p) - 1) : IsEdge(g, p[k], p[k + 1])
    /\ \A i, j \in 1..Len(p) : (i < j /\ p[i] = p[j]) => (i = 1 /\ j = Len(p))

SimpleWalks(g) ==
    UNION {{p \in [1..n -> Nodes(g)] : IsSimpleWalk(g, p)} : n \in 1..(Len(g) + 1)}

PrimePathSet(g) ==
    LET walks == SimpleWalks(g) IN
    {p \in walks : \A q \in walks : q = p \/ ~SubPath(p, q)}

\* no node identifier is the empty string (which a doubled space in a line gives)
NamedNodes(g) == <<>> \notin Nodes(g)

\* compute_prime_paths / compute_edge_pairs has returned its list
PrimeReturned == pc = "returned" /\ call.fn = "_cleanup_prime_paths"
EdgeReturned == pc = "returned" /\ call.fn = "_step_edge_pairs"

----------------------------------------------------------------------------
(* Claims *)

\* C1: compute_prime_paths returns exactly the prime paths of the graph, each once:
\* the simple walks (last node may equal the first) that are no proper contiguous
\* sub-sequence of another simple walk.
C1_ExactlyThePrimePaths ==
    (PrimeReturned /\ NamedNodes(graph)) =>
        /\ Range(result.paths) = PrimePathSet(graph)
        /\ Cardinality(Range(result.paths)) = Len(result.paths)

\* C2: in the list compute_prime_paths returns, no entry is a contiguous sub-sequence
\* of an entry at another position.
C2_Maximality ==
    PrimeReturned =>
        \A i, j \in 1..Len(result.paths) :
            i # j => ~SubPath(result.paths[i], result.paths[j])

\* the cleanup had paths to remove and left several
C2_Witness ==
    /\ PrimeReturned
    /\ Len(result.paths) >= 2
    /\ Len(result.paths) < Len(graph)

\* C3: every edge (u, v) of the graph, self-loops included, appears as two
\* consecutive elements of at least one path compute_prime_paths returns.
C3_EdgeCoverage ==
    (PrimeReturned /\ NamedNodes(graph)) =>
        \A u, v \in Nodes(graph) :
            IsEdge(graph, u, v) =>
                \E i \in 1..Len(result.paths) : SubPath(<<u, v>>, result.paths[i])

\* the index triples (n, occurrence of m in graph[n], occurrence of k in graph[m])
PairIndexes(g) ==
    {t \in (1..Len(g)) \X (1..MaxTokens) \X (1..MaxTokens) :
        /\ t[2] <= Len(g[t[1]].nbrs)
        /\ t[3] <= Len(Nbrs(g, g[t[1]].nbrs[t[2]]))}

IndexBefore(s, t) ==
    \/ s[1] < t[1]
    \/ s[1] = t[1] /\ s[2] < t[2]
    \/ s[1] = t[1] /\ s[2] = t[2] /\ s[3] < t[3]

PairAt(g, t) ==
    LET m == g[t[1]].nbrs[t[2]] IN <<g[t[1]].node, m, Nbrs(g, m)[t[3]]>>

\* C4: compute_edge_pairs returns all triples [n, m, k], m an entry of graph[n] and k
\* an entry of graph[m], in node declaration order, then graph[n] order, then
\* graph[m] order, one per pair of occurrences and nothing else.
C4_EdgePairCompleteness ==
    EdgeReturned =>
        LET idx == PairIndexes(graph) IN
        /\ Len(result.paths) = Cardinality(idx)
        /\ \A t \in idx :
            result.paths[1 + Cardinality({s \in idx : IndexBefore(s, t)})] = PairAt(graph, t)

\* a returned list that holds the same triple twice and another one
C4_Witness ==
    /\ EdgeReturned
    /\ \E i, j \in 1..Len(result.paths) : i < j /\ result.paths[i] = result.paths[j]
    /\ \E i, j \in 1..Len(result.paths) : result.paths[i] # result.paths[j]

\* the step functions, and the places from which they are called
StepFns == {"_step_prime_paths", "_step_edge_pairs"}
InLoop == pc \in {"prime_loop", "edge_loop"}
InDriver == pc \in {"step_prime", "step_edge"}

\* C5: with a cap c >= 1 an engine raises the iteration-limit error exactly when its
\* round counter reaches c before the terminal marker is reached; a computation that
\* reaches its marker with the counter below c returns and never raises.
C5_IterationCap ==
    /\ call.raised =>
        /\ call.fn \in StepFns
        /\ call.cap >= 1
        /\ state.iteration + 1 = call.cap
        /\ ~Terminal(state)
    /\ pc = "raised" => call.raised
    /\ (Terminal(state) /\ ~InDriver) => (pc \in {"prime_cleanup", "returned"} /\ ~call.raised)
    /\ (max_iters >= 1 /\ (InLoop \/ pc \in {"prime_cleanup", "returned"})) =>
        state.iteration < max_iters
    /\ (InDriver /\ call.fn \in StepFns /\ ~call.raised /\ ~Terminal(state)) =>
        state.iteration # call.cap

\* a compute_* call that ran rounds and was then stopped by its cap
C5_Witness ==
    /\ pc = "raised"
    /\ state.iteration >= 1
    /\ state.iteration + 1 = max_iters

\* compute_prime_paths runs with the cap removed
Uncapped == max_iters = -1 /\ pc \in {"prime_loop", "prime_cleanup"}

\* C6: with max_iters = -1 repeated calls of _step_prime_paths reach 'computed' after
\* at most |V| + 1 rounds and never raise: each call before the marker counts one
\* round more, and the marker is there once |V| + 1 rounds are counted.
C6_UncappedTermination ==
    /\ [](Uncapped =>
            /\ ~call.raised
            /\ state.iteration <= Len(graph) + 1
            /\ (pc = "prime_loop" => state.iteration <= Len(graph))
            /\ (pc = "prime_cleanup" <=> state.progress.marker = "computed"))
    /\ [][(Uncapped /\ pc = "prime_loop") =>
            /\ ~call'.raised
            /\ pc' \in {"prime_loop", "prime_cleanup"}
            /\ state'.iteration = state.iteration + 1]_vars

\* an uncapped run that needed all of its |V| + 1 rounds, on more than one node
C6_Witness ==
    /\ Uncapped
    /\ state.progress.marker = "computed"
    /\ state.iteration = Len(graph) + 1
    /\ Len(graph) >= 2

\* C7: once progress is 'computed' or 'cleaned', a call of either step function, with
\* any cap, leaves paths, iteration and progress as they are and does not raise;
\* _cleanup_prime_paths on a 'cleaned' state changes nothing either.
C7_TerminalIdempotent ==
    [][(InDriver /\ Terminal(state)) =>
        /\ call'.fn \in StepFns =>
            /\ ~call'.raised
            /\ state'.paths = state.paths
            /\ state'.iteration = state.iteration
            /\ state'.progress = state.progress
        /\ (call'.fn = "_cleanup_prime_paths" /\ state.progress.marker = "cleaned") =>
            state' = state]_vars

\* a step was called on a cleaned state with the cap that its counter would reach
C7_Witness ==
    /\ InDriver
    /\ state.progress.marker = "cleaned"
    /\ state.paths # <<>>
    /\ call.fn \in StepFns
    /\ call.cap = state.iteration + 1

\* C8: a step that raises leaves paths, iteration and progress as they were, so the
\* same step with the same cap raises again; compute_* then returns no list.
C8_NoPartialResult ==
    /\ []((call.raised /\ call.fn = "_step_prime_paths") =>
            StepPrimePaths(state, graph, call.cap).raised)
    /\ []((call.raised /\ call.fn = "_step_edge_pairs") =>
            StepEdgePairs(state, graph, call.cap).raised)
    /\ [](pc = "raised" => ~result.returned)
    /\ [][pc = "raised" => pc' = "raised"]_vars
    /\ [][((InLoop \/ InDriver) /\ call'.raised) =>
            /\ state'.paths = state.paths
            /\ state'.iteration = state.iteration
            /\ state'.progress = state.progress]_vars

\* the very first step of each engine was refused, and a step after some rounds
C8_Witness ==
    /\ pc = "raised"
    /\ state.iteration >= 1
    /\ state.paths # <<>>

\* p <= q in the order of lists of strings, by the first place they differ
StrLeq(s, t) ==
    \/ \E k \in 1..Len(s) :
        /\ k <= Len(t)
        /\ SubSeq(s, 1, k - 1) = SubSeq(t, 1, k - 1)
        /\ s[k] < t[k]
    \/ (Len(s) <= Len(t) /\ s = SubSeq(t, 1, Len(s)))

LexLeq(p, q) ==
    \/ \E k \in 1..Len(p) :
        /\ k <= Len(q)
        /\ SubSeq(p, 1, k - 1) = SubSeq(q, 1, k - 1)
        /\ p[k] # q[k]
        /\ StrLeq(p[k], q[k])
    \/ (Len(p) <= Len(q) /\ p = SubSeq(q, 1, Len(p)))

\* C9: the list compute_prime_paths returns is sorted by number of nodes, then by node
\* sequence lexicographically.
C9_Sorted ==
    PrimeReturned =>
        \A i \in 1..(Len(result.paths) - 1) :
            LET P == result.paths[i]
                Q == result.paths[i + 1]
            IN Len(P) < Len(Q) \/ (Len(P) = Len(Q) /\ LexLeq(P, Q))

\* a returned list with paths of two lengths and two different paths of one length
C9_Witness ==
    /\ PrimeReturned
    /\ \E i, j \in 1..Len(result.paths) : Len(result.paths[i]) < Len(result.paths[j])
    /\ \E i, j \in 1..Len(result.paths) :
        i # j /\ Len(result.paths[i]) = Len(result.paths[j])

\* C10: while and after parse_graph reads its lines, every node in an adjacency list
\* of the graph is a key of the graph.
C10_NeighborsAreKeys ==
    \A i \in 1..Len(graph) : \A k \in 1..Len(graph[i].nbrs) : HasKey(graph, graph[i].nbrs[k])

\* between two lines, with a neighbor that only the first line's adjacency list named
C10_Witness ==
    /\ pc = "parse"
    /\ 1 <= num /\ num < Len(lines)
    /\ \E i \in 1..Len(graph) : graph[i].nbrs # <<>>
    /\ Len(graph) >= 2

\* a line that is neither blank nor, leading whitespace apart, begins with '#'
IsDataLine(line) ==
    \E k \in 1..Len(line) :
        /\ line[k] \notin Whitespace
        /\ line[k] # HASH
        /\ \A j \in 1..(k - 1) : line[j] \in Whitespace

\* C11: parse_graph raises its input error if and only if no data line remains once
\* blank lines and lines beginning with '#' are discarded; otherwise it returns a
\* graph with at least one node, never an empty one.
C11_RaisesIffNoDataLine ==
    /\ [][(pc = "parse" /\ pc' # "parse") =>
            /\ pc' \in {"parse_error", "parsed"}
            /\ pc' = "parse_error" <=> ~\E i \in 1..Len(lines) : IsDataLine(lines[i])
            /\ pc' = "parsed" => (graph' # <<>> /\ graph' = graph)]_vars
    /\ [](pc \notin {"parse", "parse_error"} => graph # <<>>)

\* the input error was raised
C11_Witness == pc = "parse_error"

\* the paths of a working set that are no contiguous sub-sequence of a different
\* path of the set
MaximalPaths(paths) ==
    {p \in Range(paths) : ~\E q \in Range(paths) : q # p /\ SubPath(p, q)}

\* C12: over node identifiers without a space, _cleanup_prime_paths removes a path if
\* and only if it is equal to, or a contiguous sub-sequence of, another path of the
\* working set: what it keeps are the paths contained in no different path, whatever
\* prefixes or suffixes the identifiers share.
C12_CleanupIsSequenceContainment ==
    [][(call'.fn = "_cleanup_prime_paths" /\ state.progress = Computed
            /\ state'.progress = Cleaned /\ NamedNodes(graph))
        => Range(state'.paths) = MaximalPaths(state.paths)]_vars

\* a step of the prime-path engine that ran a round
PrimeRoundStep ==
    /\ pc \in {"prime_loop", "step_prime"}
    /\ call'.fn = "_step_prime_paths"
    /\ state'.iteration = state.iteration + 1

\* the paths a round starts from: one per node in the first round
RoundStart ==
    IF state.iteration = 0 THEN [i \in 1..Len(graph) |-> <<graph[i].node>>]
    ELSE state.paths

HasRepeat(p) == \E i, j \in 1..Len(p) : i < j /\ p[i] = p[j]

\* the accepted occurrences in the neighbor list of p's last node, in list order;
\* none for a path that already holds a node twice
Accepted(p) ==
    IF HasRepeat(p) THEN <<>>
    ELSE SelectSeq(Nbrs(graph, p[Len(p)]), LAMBDA n : n \notin Range(p) \/ n = p[1])

ExtendedInPlace(p) == IF Accepted(p) = <<>> THEN p ELSE Append(p, Accepted(p)[1])

ForksOf(p) == [k \in 1..(Len(Accepted(p)) - 1) |-> Append(p, Accepted(p)[k + 1])]

RECURSIVE ForksOfAll(_)
ForksOfAll(paths) ==
    IF paths = <<>> THEN <<>> ELSE ForksOf(Head(paths)) \o ForksOfAll(Tail(paths))

\* C13: in one round a path with a repeated node stays as it is; any other path p of
\* the round start gives one path p + [n] per accepted occurrence n in the neighbor
\* list of its last node (n not in p, or n = p's first node), the first in place and
\* each later one appended as a path built from p before the extension; p stays when
\* none is accepted, and the round is progress iff some extension or fork happened.
C13_RoundTransition ==
    [][PrimeRoundStep =>
        /\ state'.paths = [i \in 1..Len(RoundStart) |-> ExtendedInPlace(RoundStart[i])]
                          \o ForksOfAll(RoundStart)
        /\ state'.progress # Computed
             <=> \E i \in 1..Len(RoundStart) : Accepted(RoundStart[i]) # <<>>]_vars

\* a round has left a path holding a node twice and has appended a fork
C13_Witness ==
    /\ pc \in {"prime_loop", "step_prime"}
    /\ state.iteration = 1
    /\ Len(state.paths) > Len(graph)
    /\ \E i \in 1..Len(state.paths) : HasRepeat(state.paths[i])

\* q is p, or p with one node more
AtMostOneLonger(p, q) ==
    /\ Len(q) \in {Len(p), Len(p) + 1}
    /\ \A k \in 1..Len(p) : q[k] = p[k]

InPrimeGrowth ==
    \/ pc \in {"prime_loop", "prime_cleanup", "step_prime"}
    \/ pc = "raised" /\ call.fn = "_step_prime_paths"

\* C14: a round works on the paths below the length the list had at its start, each
\* once, and a path forked in a round waits for the next round: the list never
\* shrinks, a path of the round start grows by at most one node, a forked path is a
\* round-start path plus one node, and after k rounds a path has at most k + 1 nodes.
C14_SnapshotRounds ==
    /\ [][PrimeRoundStep =>
            /\ Len(state'.paths) >= Len(RoundStart)
            /\ \A i \in 1..Len(RoundStart) :
                   AtMostOneLonger(RoundStart[i], state'.paths[i])
            /\ \A j \in (Len(RoundStart) + 1)..Len(state'.paths) :
                   \E i \in 1..Len(RoundStart) :
                       /\ Len(state'.paths[j]) = Len(RoundStart[i]) + 1
                       /\ AtMostOneLonger(RoundStart[i], state'.paths[j])]_vars
    /\ [](InPrimeGrowth /\ state.progress # Cleaned =>
            \A i \in 1..Len(state.paths) : Len(state.paths[i]) <= state.iteration + 1)

\* a path forked in the first round was extended in the second
C14_Witness ==
    /\ InPrimeGrowth
    /\ state.iteration = 2
    /\ \E j \in (Len(graph) + 1)..Len(state.paths) :
          LET p == state.paths[j] IN
          /\ Len(p) = 3
          /\ p[2] # Accepted(<<p[1]>>)[1]

\* C15: after every round of prime-path growth every path of the working set is
\* non-empty, each two consecutive nodes of it are an edge of the graph, and no node
\* is on it twice, except that its last node may be its first; so it has at most
\* |V| + 1 nodes.
C15_PathShape ==
    (InPrimeGrowth /\ state.progress # Cleaned) =>
        \A i \in 1..Len(state.paths) :
            LET p == state.paths[i] IN
            /\ p # <<>>
            /\ \A k \in 1..(Len(p) - 1) : p[k + 1] \in Range(Nbrs(graph, p[k]))
            /\ \A j, k \in 1..Len(p) : (j < k /\ p[j] = p[k]) => (j = 1 /\ k = Len(p))
            /\ Len(p) <= Len(graph) + 1

\* a path has come back to its first node after all the nodes, and another stopped
\* before a node of its own that is not its first
C15_Witness ==
    /\ InPrimeGrowth
    /\ state.progress = Computed
    /\ Len(graph) >= 2
    /\ \E i \in 1..Len(state.paths) : Len(state.paths[i]) = Len(graph) + 1
    /\ \E i \in 1..Len(state.paths) :
          LET p == state.paths[i] IN
          \E n \in Range(Nbrs(graph, p[Len(p)])) : n \in Range(p) /\ n # p[1]

\* the phase of a prime-path state: 0 Seed, 1 Growing, 2 Converged, 3 Reduced
Phase(st) ==
    CASE st.progress.marker = "" -> 0
      [] st.progress.marker = "prime paths" -> 1
      [] st.progress.marker = "computed" -> 2
      [] st.progress.marker = "cleaned" -> 3

InPrimeComputation == pc \in {"prime_loop", "prime_cleanup", "step_prime"}

\* C16: the progress marker of a prime-path computation only moves forward through
\* Seed (iteration 0, no paths), Growing, Converged ('computed') and Reduced
\* ('cleaned'); 'computed' is set at the end of a round iff the round made no
\* extension and no fork; the round counter goes up by exactly 1 in each step that is
\* successful and not terminal, and by nothing otherwise; and the cleanup runs only
\* once 'computed' is reached.
C16_PhaseOrdering ==
    /\ [](InPrimeComputation /\ Phase(state) = 0 =>
             state.iteration = 0 /\ state.paths = <<>>)
    /\ [](pc = "prime_cleanup" => state.progress = Computed)
    /\ [][InPrimeComputation =>
            /\ Phase(state') >= Phase(state)
            /\ state'.iteration =
                 IF call'.fn = "_step_prime_paths" /\ ~call'.raised /\ ~Terminal(state)
                 THEN state.iteration + 1 ELSE state.iteration
            /\ (Phase(state) < 2 /\ Phase(state') = 2) =>
                 (PrimeRoundStep /\ state'.paths = RoundStart)
            /\ (PrimeRoundStep /\ state'.paths = RoundStart) => Phase(state') = 2
            /\ (Phase(state) < 3 /\ Phase(state') = 3) =>
                 (call'.fn = "_cleanup_prime_paths" /\ Phase(state) = 2)]_vars

\* compute_prime_paths has returned after going through the four phases
C16_Witness ==
    /\ PrimeReturned
    /\ Phase(state) = 3
    /\ state.iteration >= 3
    /\ max_iters > state.iteration

\* a state of the edge-pair engine on which _step_edge_pairs has been called
EdgeStepped ==
    /\ \/ pc \in {"edge_loop", "step_edge"}
       \/ EdgeReturned
       \/ pc = "raised" /\ call.fn = "_step_edge_pairs"
    /\ state.iteration >= 1 \/ call.fn = "_step_edge_pairs"

\* C17: after k successful rounds of the edge-pair engine on a graph with node
\* sequence V, remaining_nodes is V[k:], iteration is k, and paths holds exactly the
\* triples whose first node is one of V[0..k-1], in order; 'computed' is set exactly
\* at the end of round |V|, so a computation that returns has counted |V| rounds.
C17_EdgePairQueue ==
    /\ [](EdgeStepped =>
            LET V == [i \in 1..Len(graph) |-> graph[i].node]
                k == state.iteration
                idx == {t \in PairIndexes(graph) : t[1] <= k}
            IN
            /\ k <= Len(V)
            /\ state.remaining_nodes = SubSeq(V, k + 1, Len(V))
            /\ Len(state.paths) = Cardinality(idx)
            /\ \A t \in idx :
                 state.paths[1 + Cardinality({s \in idx : IndexBefore(s, t)})]
                    = PairAt(graph, t)
            /\ state.progress = Computed <=> k = Len(V)
            /\ EdgeReturned => k = Len(V))
    /\ [][(pc \in {"edge_loop", "step_edge"} /\ call'.fn = "_step_edge_pairs"
              /\ ~call'.raised /\ ~Terminal(state))
            => state'.iteration = state.iteration + 1]_vars

\* between two rounds: triples found for the nodes done, and nodes left on the queue
C17_Witness ==
    /\ pc \in {"edge_loop", "step_edge"}
    /\ state.iteration >= 1
    /\ state.paths # <<>>
    /\ Len(state.remaining_nodes) >= 2

\* how many entries of a list of paths are equal to p
Copies(paths, p) == Cardinality({i \in 1..Len(paths) : paths[i] = p})

\* C18: when the converged working set holds a path several times (duplicate entries
\* in a neighbor list give that) and no longer path contains it, the cleanup keeps it
\* exactly once: the list after the cleanup holds no path twice and has not lost all
\* copies of such a path.
C18_TiesCollapseToOne ==
    [][(call'.fn = "_cleanup_prime_paths" /\ state.progress = Computed
            /\ state'.progress = Cleaned /\ NamedNodes(graph))
        => /\ \A i \in 1..Len(state'.paths) : Copies(state'.paths, state'.paths[i]) = 1
           /\ \A i \in 1..Len(state.paths) :
                LET p == state.paths[i] IN
                (/\ Copies(state.paths, p) >= 2
                 /\ \A j \in 1..Len(state.paths) :
                        Len(state.paths[j]) > Len(p) => ~SubPath(p, state.paths[j]))
                => Copies(state'.paths, p) = 1]_vars

\* prime_path_coverage.compute_prime_paths has returned, after compute_prime_paths of
\* graph_coverage on the same graph
BothReturned ==
    /\ pc = "returned"
    /\ call.fn = "prime_path_coverage.compute_prime_paths"

\* C19: on every graph on which both modules converge within their caps,
\* prime_path_coverage.compute_prime_paths(graph)['paths'] is the same ordered list
\* as graph_coverage.compute_prime_paths(graph), also with duplicate neighbor entries
\* and with identifiers that are prefixes or suffixes of one another.
C19_SamePrimePaths ==
    (BothReturned /\ NamedNodes(graph)) => result.paths = state.paths

====
